---- MODULE Spec2Model ----
(***************************************************************************)
(* Model of the LocalLibrary catalog application                           *)
(* (locallibrary/catalog/models.py and locallibrary/catalog/urls.py).      *)
(*                                                                         *)
(* The persistent store is modelled as one set of rows per table.  The     *)
(* field declarations of models.py are modelled by the checks that the     *)
(* framework derives from them: the per-field validators and uniqueness    *)
(* checks of the validation pass, and the UNIQUE / FOREIGN KEY constraints *)
(* and on_delete handlers of the store.  A row reaches the store on one of  *)
(* two paths: full_clean() followed by save(), as a form or the admin does, *)
(* or save() alone, which runs no validation and meets only the            *)
(* constraints of the store.  A request served alone is one step; for      *)
(* concurrent requests a validated write of a Book is two steps,           *)
(* validation against the state it reads and then the INSERT or UPDATE.    *)
(***************************************************************************)
EXTENDS Integers, Sequences, FiniteSets, TLC

\* ------------------------------------------------------------------ bounds
MaxAuthors   == 2
MaxLanguages == 1
MaxBooks     == 2
MaxInstances == 3
MaxRequests  == 2
MaxDelta     == 2
MaxDate      == 8
MaxPk        == 30

\* NULL in a key or date column.  Primary keys start at 1 and a date is its
\* proleptic ordinal (date.min is day 1), so 0 is free to stand for NULL.
None == 0

\* no validated row is waiting
NoRow == [table |-> "None"]

AuthorIds   == 1..MaxAuthors
LanguageIds == 1..MaxLanguages
BookIds     == 1..MaxBooks
Uuids       == 1..MaxInstances
Requests    == 1..MaxRequests

\* input alphabets of the requests
FirstNames == {"Frank", "Brian"}
LastNames  == {"Herbert", "Austen"}
Dobs       == {None, 1920, 1775}
Titles     == {"Dune", "Emma"}
Isbns      == {"9780441013593", "9780141439587"}

VARIABLES
    authors,      \* rows of Author: [id, first_name, last_name, date_of_birth]
    languages,    \* rows of Language: [id]
    books,        \* rows of Book: [id, title, author, isbn, language]
    instances,    \* rows of BookInstance: [id, book, status]
    nextAuthor,   \* next value of Author's auto-increment primary key
    nextLanguage, \* next value of Language's auto-increment primary key
    nextBook,     \* next value of Book's auto-increment primary key
    pending,      \* per request: the validated row awaiting its INSERT, or NoRow
    result,       \* outcome of the last completed operation
    images,       \* per image-bearing entity: size of the stored image, or NoImage
    upload,       \* the last image save: [path, entity, size, outcome]
    today,        \* the current date
    due_back,     \* due_back of the BookInstance under observation
    overdue,      \* the value read from is_overdue today, if it was read
    urlObj,       \* the object whose canonical URL was last requested
    urlPath,      \* the request path, a sequence of characters
    resolved      \* outcome of dispatching urlPath

dbVars  == <<authors, languages, books, instances, nextAuthor, nextLanguage,
             nextBook, pending, result>>
imgVars == <<images, upload>>
dueVars == <<today, due_back, overdue>>
urlVars == <<urlObj, urlPath, resolved>>
vars    == <<authors, languages, books, instances, nextAuthor, nextLanguage,
             nextBook, pending, result, images, upload, today, due_back,
             overdue, urlObj, urlPath, resolved>>

\* outcome of an operation on the store
Res(op, outcome) == [op |-> op, outcome |-> outcome]

\* ------------------------------------------------- store-level constraints

\* Book.isbn: unique=True.  UNIQUE index on isbn; the row with primary key
\* `self` is the row being written.
IsbnFree(isbn, self) ==
    \A b \in books : b.id # self => b.isbn # isbn

\* variant: Book.Meta carries no unique_together
TitleAuthorFreeUnchecked(title, author, self) == TRUE

\* Book.Meta.unique_together = ('title', 'author').  Composite UNIQUE index;
\* a row whose author is NULL never conflicts with another row.
TitleAuthorFree(title, author, self) ==
    author = None \/
    \A b \in books : b.id # self => ~(b.title = title /\ b.author = author)

\* variant: the index is on ('first_name', 'last_name', 'date_of_death'), and
\* no request sets date_of_death
AuthorTripleFreeDeath(first, last, dob) == TRUE

\* Author.Meta.unique_together = ('first_name', 'last_name', 'date_of_birth').
\* Composite UNIQUE index; a row whose date_of_birth is NULL never conflicts.
AuthorTripleFree(first, last, dob) ==
    dob = None \/
    \A a \in authors :
        ~(a.first_name = first /\ a.last_name = last /\ a.date_of_birth = dob)

\* Book.author: ForeignKey('Author', null=True).  FOREIGN KEY constraint of
\* the nullable column author_id.
AuthorRefOK(author) == author = None \/ \E a \in authors : a.id = author

\* Book.language: ForeignKey('Language', null=True).  FOREIGN KEY constraint
\* of the nullable column language_id.
LanguageRefOK(language) == language = None \/ \E l \in languages : l.id = language

\* BookInstance.book: ForeignKey('Book', null=True).  FOREIGN KEY constraint
\* of the nullable column book_id.
BookRefOK(book) == book = None \/ \E b \in books : b.id = book

\* Book.author in full_clean(): the field is not blank=True, so None is
\* refused, and the key must name an existing Author
AuthorFieldValid(author) == author # None /\ AuthorRefOK(author)

\* Book.language in full_clean(): the field is not blank=True, so None is
\* refused, and the key must name an existing Language
LanguageFieldValid(language) == language # None /\ LanguageRefOK(language)

\* BookInstance.book in full_clean(): the field is not blank=True, so None is
\* refused, and the key must name an existing Book
BookFieldValid(book) == book # None /\ BookRefOK(book)

\* rows of BookInstance that reference the Book with primary key `book`
Referencing(book) == {i \in instances : i.book = book}

\* --------------------------------------------------------- Author, Language

\* Author(...).full_clean(); save()
CreateAuthor(first, last, dob) ==
    /\ nextAuthor <= MaxAuthors
    /\ IF AuthorTripleFree(first, last, dob)
       THEN /\ authors' = authors \cup
                    {[id |-> nextAuthor, first_name |-> first,
                      last_name |-> last, date_of_birth |-> dob]}
            /\ nextAuthor' = nextAuthor + 1
            /\ result' = Res("CreateAuthor", "ok")
       ELSE /\ UNCHANGED <<authors, nextAuthor>>
            /\ result' = Res("CreateAuthor", "ValidationError")
    /\ UNCHANGED <<languages, books, instances, nextLanguage, nextBook, pending>>
    /\ UNCHANGED <<imgVars, dueVars, urlVars>>

\* Book.author: on_delete=models.SET_NULL
SetNullAuthor(b, author) ==
    IF b.author = author THEN [b EXCEPT !.author = None] ELSE b

\* variant: Book.author with on_delete=models.CASCADE
DeleteAuthorCascade(id) ==
    /\ \E a \in authors : a.id = id
    /\ authors' = {a \in authors : a.id # id}
    /\ books' = {b \in books : b.author # id}
    /\ result' = Res("DeleteAuthor", "ok")
    /\ UNCHANGED <<languages, instances, nextAuthor, nextLanguage, nextBook, pending>>
    /\ UNCHANGED <<imgVars, dueVars, urlVars>>

\* Author.delete(): every Book that references the row has author set to NULL
DeleteAuthor(id) ==
    /\ \E a \in authors : a.id = id
    /\ authors' = {a \in authors : a.id # id}
    /\ books' = {SetNullAuthor(b, id) : b \in books}
    /\ result' = Res("DeleteAuthor", "ok")
    /\ UNCHANGED <<languages, instances, nextAuthor, nextLanguage, nextBook, pending>>
    /\ UNCHANGED <<imgVars, dueVars, urlVars>>

\* Book.language: on_delete=models.SET_NULL
SetNullLanguage(b, language) ==
    IF b.language = language THEN [b EXCEPT !.language = None] ELSE b

\* Language.delete(): every Book that references the row has language set to NULL
DeleteLanguage(id) ==
    /\ \E l \in languages : l.id = id
    /\ languages' = {l \in languages : l.id # id}
    /\ books' = {SetNullLanguage(b, id) : b \in books}
    /\ result' = Res("DeleteLanguage", "ok")
    /\ UNCHANGED <<authors, instances, nextAuthor, nextLanguage, nextBook, pending>>
    /\ UNCHANGED <<imgVars, dueVars, urlVars>>

\* ------------------------------------------------------------------- Book

\* Book.full_clean(): clean_fields() refuses an absent author or language
\* and a key that names no row; validate_unique() checks isbn and, the
\* author being present, (title, author).
BookValid(title, author, isbn, language, self) ==
    /\ AuthorFieldValid(author)
    /\ LanguageFieldValid(language)
    /\ IsbnFree(isbn, self)
    /\ TitleAuthorFree(title, author, self)

\* variant: isbn without unique=True on the column
BookConstraintsNoIsbn(title, author, isbn, language, self) ==
    /\ TitleAuthorFree(title, author, self)
    /\ AuthorRefOK(author)
    /\ LanguageRefOK(language)

\* INSERT / UPDATE of a Book row: the constraints of the table
BookConstraints(title, author, isbn, language, self) ==
    /\ IsbnFree(isbn, self)
    /\ TitleAuthorFree(title, author, self)
    /\ AuthorRefOK(author)
    /\ LanguageRefOK(language)

\* the row a create-Book request writes
NewBook(title, author, isbn, language) ==
    [id |-> nextBook, title |-> title, author |-> author, isbn |-> isbn,
     language |-> language]

\* a create-Book request served alone: full_clean() and save()
CreateBook(title, author, isbn, language) ==
    /\ nextBook <= MaxBooks
    /\ IF ~BookValid(title, author, isbn, language, None)
       THEN /\ result' = Res("CreateBook", "ValidationError")
            /\ UNCHANGED <<books, nextBook>>
       ELSE IF ~BookConstraints(title, author, isbn, language, None)
       THEN /\ result' = Res("CreateBook", "IntegrityError")
            /\ UNCHANGED <<books, nextBook>>
       ELSE /\ result' = Res("CreateBook", "ok")
            /\ books' = books \cup {NewBook(title, author, isbn, language)}
            /\ nextBook' = nextBook + 1
    /\ UNCHANGED <<authors, languages, instances, nextAuthor, nextLanguage, pending>>
    /\ UNCHANGED <<imgVars, dueVars, urlVars>>

\* Book(...).save() of a new row without full_clean(): the INSERT alone
SaveBook(title, author, isbn, language) ==
    /\ nextBook <= MaxBooks
    /\ IF ~BookConstraints(title, author, isbn, language, None)
       THEN /\ result' = Res("SaveBook", "IntegrityError")
            /\ UNCHANGED <<books, nextBook>>
       ELSE /\ result' = Res("SaveBook", "ok")
            /\ books' = books \cup {NewBook(title, author, isbn, language)}
            /\ nextBook' = nextBook + 1
    /\ UNCHANGED <<authors, languages, instances, nextAuthor, nextLanguage, pending>>
    /\ UNCHANGED <<imgVars, dueVars, urlVars>>

\* first half of a concurrent create-Book request: full_clean()
BeginCreateBook(r, title, author, isbn, language) ==
    /\ pending[r] = NoRow
    /\ \A q \in Requests : q < r => pending[q] # NoRow
    /\ nextBook <= MaxBooks
    /\ IF BookValid(title, author, isbn, language, None)
       THEN /\ pending' = [pending EXCEPT ![r] =
                    [table |-> "Book", id |-> None, title |-> title,
                     author |-> author, isbn |-> isbn, language |-> language]]
            /\ UNCHANGED result
       ELSE /\ result' = Res("CreateBook", "ValidationError")
            /\ UNCHANGED pending
    /\ UNCHANGED <<authors, languages, books, instances, nextAuthor,
                   nextLanguage, nextBook>>
    /\ UNCHANGED <<imgVars, dueVars, urlVars>>

\* second half of a concurrent create-Book request: save(), the INSERT
CommitCreateBook(r) ==
    /\ pending[r] # NoRow
    /\ pending[r].id = None
    /\ nextBook <= MaxBooks
    /\ LET p == pending[r] IN
       IF BookConstraints(p.title, p.author, p.isbn, p.language, None)
       THEN /\ books' = books \cup
                    {NewBook(p.title, p.author, p.isbn, p.language)}
            /\ nextBook' = nextBook + 1
            /\ result' = Res("CreateBook", "ok")
       ELSE /\ UNCHANGED <<books, nextBook>>
            /\ result' = Res("CreateBook", "IntegrityError")
    /\ pending' = [pending EXCEPT ![r] = NoRow]
    /\ UNCHANGED <<authors, languages, instances, nextAuthor, nextLanguage>>
    /\ UNCHANGED <<imgVars, dueVars, urlVars>>

\* Book update served alone: full_clean() and save() of an existing row
UpdateBook(id, title, author, isbn, language) ==
    /\ \E b \in books : b.id = id
    /\ LET old == CHOOSE b \in books : b.id = id
           new == [id |-> id, title |-> title, author |-> author,
                   isbn |-> isbn, language |-> language]
       IN  /\ new # old
           /\ IF ~BookValid(title, author, isbn, language, id)
              THEN /\ result' = Res("UpdateBook", "ValidationError")
                   /\ UNCHANGED books
              ELSE IF ~BookConstraints(title, author, isbn, language, id)
              THEN /\ result' = Res("UpdateBook", "IntegrityError")
                   /\ UNCHANGED books
              ELSE /\ result' = Res("UpdateBook", "ok")
                   /\ books' = (books \ {old}) \cup {new}
    /\ UNCHANGED <<authors, languages, instances, nextAuthor, nextLanguage,
                   nextBook, pending>>
    /\ UNCHANGED <<imgVars, dueVars, urlVars>>

\* first half of a concurrent Book update: full_clean() of the loaded row
BeginUpdateBook(r, id, title, author, isbn, language) ==
    /\ pending[r] = NoRow
    /\ \A q \in Requests : q < r => pending[q] # NoRow
    /\ \E b \in books :
          /\ b.id = id
          /\ b # [id |-> id, title |-> title, author |-> author,
                  isbn |-> isbn, language |-> language]
    /\ IF BookValid(title, author, isbn, language, id)
       THEN /\ pending' = [pending EXCEPT ![r] =
                    [table |-> "Book", id |-> id, title |-> title,
                     author |-> author, isbn |-> isbn, language |-> language]]
            /\ UNCHANGED result
       ELSE /\ result' = Res("UpdateBook", "ValidationError")
            /\ UNCHANGED pending
    /\ UNCHANGED <<authors, languages, books, instances, nextAuthor,
                   nextLanguage, nextBook>>
    /\ UNCHANGED <<imgVars, dueVars, urlVars>>

\* second half of a concurrent Book update: save().  The UPDATE of the row
\* with that primary key; when it is gone, save() INSERTs the row instead.
CommitUpdateBook(r) ==
    /\ pending[r] # NoRow
    /\ pending[r].id # None
    /\ LET p   == pending[r]
           new == [id |-> p.id, title |-> p.title, author |-> p.author,
                   isbn |-> p.isbn, language |-> p.language]
       IN  IF BookConstraints(p.title, p.author, p.isbn, p.language, p.id)
           THEN /\ books' = {b \in books : b.id # p.id} \cup {new}
                /\ result' = Res("UpdateBook", "ok")
           ELSE /\ UNCHANGED books
                /\ result' = Res("UpdateBook", "IntegrityError")
    /\ pending' = [pending EXCEPT ![r] = NoRow]
    /\ UNCHANGED <<authors, languages, instances, nextAuthor, nextLanguage,
                   nextBook>>
    /\ UNCHANGED <<imgVars, dueVars, urlVars>>

\* variant: BookInstance.book with on_delete=models.CASCADE
DeleteBookCascade(id) ==
    /\ \E b \in books : b.id = id
    /\ result' = Res("DeleteBook", "ok")
    /\ books' = {b \in books : b.id # id}
    /\ instances' = instances \ Referencing(id)
    /\ UNCHANGED <<authors, languages, nextAuthor, nextLanguage, nextBook, pending>>
    /\ UNCHANGED <<imgVars, dueVars, urlVars>>

\* variant: BookInstance.book with on_delete=models.DO_NOTHING and no
\* constraint in the store
DeleteBookDoNothing(id) ==
    /\ \E b \in books : b.id = id
    /\ result' = Res("DeleteBook", "ok")
    /\ books' = {b \in books : b.id # id}
    /\ UNCHANGED <<authors, languages, instances, nextAuthor, nextLanguage,
                   nextBook, pending>>
    /\ UNCHANGED <<imgVars, dueVars, urlVars>>

\* BookInstance.book: on_delete=models.RESTRICT
\* Book.delete(): refused while a BookInstance references the row
DeleteBook(id) ==
    /\ \E b \in books : b.id = id
    /\ IF Referencing(id) # {}
       THEN /\ result' = Res("DeleteBook", "RestrictedError")
            /\ UNCHANGED books
       ELSE /\ result' = Res("DeleteBook", "ok")
            /\ books' = {b \in books : b.id # id}
    /\ UNCHANGED <<authors, languages, instances, nextAuthor, nextLanguage,
                   nextBook, pending>>
    /\ UNCHANGED <<imgVars, dueVars, urlVars>>

\* ------------------------------------------------------------ BookInstance

\* BookInstance.LOAN_STATUS
LOAN_STATUS == {"d", "o", "a", "r"}

\* the request carries no status
Unset == "<unset>"

\* status values a request may carry
StatusInputs == LOAN_STATUS \cup {Unset, "", "x"}

\* BookInstance.status: default='d'
StatusOrDefault(status) == IF status = Unset THEN "d" ELSE status

\* variant: status without choices
StatusValidAny(status) == TRUE

\* BookInstance.status: choices=LOAN_STATUS, blank=True.  Field validation
\* checks the choices only for a non-empty value, and blank=True lets the
\* empty value through.
StatusValid(status) == status = "" \/ status \in LOAN_STATUS

\* BookInstance.id: primary_key=True
UuidFree(id) == \A i \in instances : i.id # id

\* BookInstance.full_clean()
InstanceValid(id, book, status) ==
    /\ UuidFree(id)
    /\ BookFieldValid(book)
    /\ StatusValid(status)

\* INSERT of a BookInstance row: the constraints of the table
InstanceConstraints(id, book) ==
    /\ UuidFree(id)
    /\ BookRefOK(book)

\* a create-BookInstance request: full_clean() and save().  id is the value
\* drawn by default=uuid.uuid4.
CreateInstance(id, book, status) ==
    /\ UuidFree(id)
    /\ LET s == StatusOrDefault(status) IN
       IF ~InstanceValid(id, book, s)
       THEN /\ result' = Res("CreateInstance", "ValidationError")
            /\ UNCHANGED instances
       ELSE IF ~InstanceConstraints(id, book)
       THEN /\ result' = Res("CreateInstance", "IntegrityError")
            /\ UNCHANGED instances
       ELSE /\ result' = Res("CreateInstance", "ok")
            /\ instances' = instances \cup
                   {[id |-> id, book |-> book, status |-> s]}
    /\ UNCHANGED <<authors, languages, books, nextAuthor, nextLanguage,
                   nextBook, pending>>
    /\ UNCHANGED <<imgVars, dueVars, urlVars>>

\* BookInstance(...).save() of a new row without full_clean(): the INSERT
\* alone.  The store has no constraint on status.
SaveInstance(id, book, status) ==
    /\ UuidFree(id)
    /\ IF ~InstanceConstraints(id, book)
       THEN /\ result' = Res("SaveInstance", "IntegrityError")
            /\ UNCHANGED instances
       ELSE /\ result' = Res("SaveInstance", "ok")
            /\ instances' = instances \cup
                   {[id |-> id, book |-> book, status |-> StatusOrDefault(status)]}
    /\ UNCHANGED <<authors, languages, books, nextAuthor, nextLanguage,
                   nextBook, pending>>
    /\ UNCHANGED <<imgVars, dueVars, urlVars>>

\* BookInstance.delete()
DeleteInstance(id) ==
    /\ \E i \in instances : i.id = id
    /\ instances' = {i \in instances : i.id # id}
    /\ result' = Res("DeleteInstance", "ok")
    /\ UNCHANGED <<authors, languages, books, nextAuthor, nextLanguage,
                   nextBook, pending>>
    /\ UNCHANGED <<imgVars, dueVars, urlVars>>

\* ------------------------------------------------------- image validators

\* the entities that carry an image: Cover.cover, Book.photoPreview,
\* BookInstance.photo
Entities == {"Cover", "Book", "BookInstance"}

\* Cover.validate_image: TRUE when it raises forms.ValidationError
CoverValidateImage(size) ==
    LET size_limit == 2 * 1024 * 1024 IN size > size_limit

\* Book.validate_image: TRUE when it raises forms.ValidationError
BookValidateImage(size) ==
    LET size_limit == 2 * 1024 * 1024 IN size > size_limit

\* variant: the comparison is >=
InstanceValidateImageInclusive(size) ==
    LET size_limit == 2 * 1024 * 1024 IN size >= size_limit

\* BookInstance.validate_image: TRUE when it raises forms.ValidationError
InstanceValidateImage(size) ==
    LET size_limit == 2 * 1024 * 1024 IN size > size_limit

\* validators=[validate_image] of the image field of each entity
ImageRejected(entity, size) ==
    CASE entity = "Cover"        -> CoverValidateImage(size)
      [] entity = "Book"         -> BookValidateImage(size)
      [] entity = "BookInstance" -> InstanceValidateImage(size)

\* 2MB, the limit the specification states
TwoMB == 2 * 1024 * 1024

\* sizes of the uploaded images, which have at least one byte: around the
\* limit, and far from it
Sizes == {1, 2 * TwoMB} \cup {TwoMB + d : d \in (0 - MaxDelta)..MaxDelta}

\* full_clean() and save() of a record with an image of `size` bytes
\* attached: the field's validators run, and save() follows when none raises
CleanAndSaveImage(entity, size) ==
    /\ IF ImageRejected(entity, size)
       THEN /\ upload' = [path |-> "full_clean", entity |-> entity,
                          size |-> size, outcome |-> "ValidationError"]
            /\ UNCHANGED images
       ELSE /\ upload' = [path |-> "full_clean", entity |-> entity,
                          size |-> size, outcome |-> "ok"]
            /\ images' = [images EXCEPT ![entity] = size]
    /\ UNCHANGED <<dbVars, dueVars, urlVars>>

\* save() alone of a record with an image of `size` bytes attached: no
\* validator runs and the image is stored
SaveImage(entity, size) ==
    /\ upload' = [path |-> "save", entity |-> entity, size |-> size,
                  outcome |-> "ok"]
    /\ images' = [images EXCEPT ![entity] = size]
    /\ UNCHANGED <<dbVars, dueVars, urlVars>>

\* -------------------------------------------------- BookInstance.is_overdue

Dates == 1..MaxDate

\* truth value of a due_back: None is false, every date is true
Truthy(d) == d # None

\* variant: the comparison is >=
is_overdue_inclusive(due, now) ==
    IF Truthy(due) /\ now >= due THEN TRUE ELSE FALSE

\* BookInstance.is_overdue
is_overdue(due, now) ==
    IF Truthy(due) /\ now > due THEN TRUE ELSE FALSE

\* is_overdue has not been read today
Unread == [read |-> FALSE, value |-> FALSE]

\* a template or view reads instance.is_overdue
ReadIsOverdue ==
    /\ overdue = Unread
    /\ overdue' = [read |-> TRUE, value |-> is_overdue(due_back, today)]
    /\ UNCHANGED <<today, due_back>>
    /\ UNCHANGED <<dbVars, imgVars, urlVars>>

\* midnight: date.today() moves on, and the value read yesterday is stale
Tick ==
    /\ today < MaxDate
    /\ today' = today + 1
    /\ overdue' = Unread
    /\ UNCHANGED due_back
    /\ UNCHANGED <<dbVars, imgVars, urlVars>>

\* ---------------------------------------------------------------- routing

\* A character is its code point and a string the sequence of its characters.

\* the printable ASCII characters, the first being the space, code point 32;
\* three that the paths never use are spelled out
Printable == <<
    " ", "!", "(quote)", "#", "$", "%", "&", "'", "(", ")", "*", "+",
    ",", "-", ".", "/", "0", "1", "2", "3", "4", "5", "6", "7", "8",
    "9", ":", ";", "<", "=", ">", "?", "@", "A", "B", "C", "D", "E",
    "F", "G", "H", "I", "J", "K", "L", "M", "N", "O", "P", "Q", "R",
    "S", "T", "U", "V", "W", "X", "Y", "Z", "[", "(backslash)", "]", "^", "_",
    "(grave)", "a", "b", "c", "d", "e", "f", "g", "h", "i", "j", "k", "l",
    "m", "n", "o", "p", "q", "r", "s", "t", "u", "v", "w", "x", "y",
    "z", "{", "|", "}", "~" >>

\* ord(c) of a printable ASCII character
Ord(c) == 31 + CHOOSE i \in 1..Len(Printable) : Printable[i] = c

\* the string whose characters are written in t
Text(t) == [i \in 1..Len(t) |-> Ord(t[i])]

\* the newline character
Newline == Ord(" ") - 22

\* first code points of the runs of ten decimal digits, zero to nine, of
\* the character class \d of a str pattern
DigitRuns == {
    48, 1632, 1776, 1984, 2406, 2534, 2662, 2790, 2918, 3046, 3174,
    3302, 3430, 3558, 3664, 3792, 3872, 4160, 4240, 6112, 6160, 6470,
    6608, 6784, 6800, 6992, 7088, 7232, 7248, 42528, 43216, 43264,
    43472, 43504, 43600, 44016, 65296, 66720, 68912, 69734, 69872,
    69942, 70096, 70384, 70736, 70864, 71248, 71360, 71472, 71904,
    72016, 72784, 73040, 73120, 92768, 92864, 93008, 120782, 120792,
    120802, 120812, 120822, 123200, 123632, 125264, 130032 }

\* \d matches the character c
IsDigit(c) == \E z \in DigitRuns : z <= c /\ c <= z + 9

\* str(n) of a non-negative integer
RECURSIVE Str(_)
Str(n) ==
    IF n < 10 THEN <<Ord("0") + n>>
    ELSE Str(n \div 10) \o <<Ord("0") + (n % 10)>>

\* where the root URLconf mounts catalog.urls: at the root
RootInclude == <<>>

\* catalog.urls.urlpatterns, in order.  lit is the literal the pattern starts
\* with, pk tells whether (?P<pk>\d+) follows it.
urlpatterns == <<
    [kind |-> "path", lit |-> <<>>, pk |-> FALSE,
     view |-> "index", name |-> "index"],
    [kind |-> "url", lit |-> <<>>, pk |-> FALSE,
     view |-> "index", name |-> "index"],
    [kind |-> "url", lit |-> Text(<<"b", "o", "o", "k", "s", "/">>), pk |-> FALSE,
     view |-> "BookListView", name |-> "books"],
    [kind |-> "url", lit |-> Text(<<"b", "o", "o", "k", "/">>), pk |-> TRUE,
     view |-> "BookDetailView", name |-> "book-detail"],
    [kind |-> "url", lit |-> Text(<<"a", "u", "t", "h", "o", "r", "/">>), pk |-> FALSE,
     view |-> "AuthorListView", name |-> "authors"],
    [kind |-> "url", lit |-> Text(<<"a", "u", "t", "h", "o", "r", "/">>), pk |-> TRUE,
     view |-> "AuthorDetailView", name |-> "author-detail"],
    [kind |-> "url", lit |-> Text(<<"m", "y", "b", "o", "o", "k", "s", "/">>), pk |-> FALSE,
     view |-> "LoanedBooksByUserListView", name |-> "my-borrowed"] >>

\* s without the one trailing newline that $ lets through
Chomp(s) ==
    IF Len(s) > 0 /\ s[Len(s)] = Newline THEN SubSeq(s, 1, Len(s) - 1) ELSE s

\* what follows the literal of pattern p in s
Rest(p, s) == SubSeq(s, Len(p.lit) + 1, Len(s))

\* s starts with the literal of pattern p
StartsWithLit(p, s) ==
    Len(s) >= Len(p.lit) /\ SubSeq(s, 1, Len(p.lit)) = p.lit

\* \d+ matches the whole of s
AllDigits(s) == Len(s) > 0 /\ \A i \in 1..Len(s) : IsDigit(s[i])

\* pattern p matches the path s (s has lost its leading slash).  path('')
\* is the regex ^$ and every url() regex ends in $, which also matches
\* before a final newline.
PatternMatches(p, s) ==
    IF p.kind = "path" THEN Chomp(s) = p.lit
    ELSE IF ~p.pk THEN Chomp(s) = p.lit
    ELSE StartsWithLit(p, s) /\ AllDigits(Chomp(Rest(p, s)))

\* the pk group of a match of pattern p on s
PatternPk(p, s) == IF p.pk THEN Chomp(Rest(p, s)) ELSE <<>>

\* indexes of the patterns of urlpatterns that match the request path
Matching(path) ==
    IF Len(path) = 0 \/ path[1] # Ord("/") THEN {}
    ELSE LET s == Tail(path) IN
         {i \in 1..Len(urlpatterns) :
             /\ StartsWithLit([lit |-> RootInclude], s)
             /\ PatternMatches(urlpatterns[i],
                               SubSeq(s, Len(RootInclude) + 1, Len(s)))}

NotFound == [view |-> "Http404", pk |-> <<>>]

\* the URL resolver: the first pattern that matches decides
resolve(path) ==
    IF Matching(path) = {} THEN NotFound
    ELSE LET i == CHOOSE m \in Matching(path) :
                      \A o \in Matching(path) : m <= o
             s == SubSeq(path, Len(RootInclude) + 2, Len(path))
         IN  [view |-> urlpatterns[i].view, pk |-> PatternPk(urlpatterns[i], s)]

\* the bytes of the UTF-8 encoding of the character c
Utf8(c) ==
    IF c < 128 THEN <<c>>
    ELSE IF c < 2048 THEN <<192 + (c \div 64), 128 + (c % 64)>>
    ELSE IF c < 65536
    THEN <<224 + (c \div 4096), 128 + ((c \div 64) % 64), 128 + (c % 64)>>
    ELSE <<240 + (c \div 262144), 128 + ((c \div 4096) % 64),
           128 + ((c \div 64) % 64), 128 + (c % 64)>>

HexDigits == Text(<<"0", "1", "2", "3", "4", "5", "6", "7", "8", "9", "A", "B", "C", "D", "E", "F">>)

\* %XX of a byte
PercentByte(b) ==
    <<Ord("%"), HexDigits[(b \div 16) + 1], HexDigits[(b % 16) + 1]>>

\* the characters quote() leaves as they are: letters, digits, _.-~ and the
\* safe characters reverse() passes
QuoteSafe(c) ==
    \/ Ord("0") <= c /\ c <= Ord("9")
    \/ Ord("A") <= c /\ c <= Ord("Z")
    \/ Ord("a") <= c /\ c <= Ord("z")
    \/ c \in {Ord(x) : x \in {"_", ".", "-", "~", "!", "$", "&", "'", "(",
                              ")", "*", "+", ",", ";", "=", "/", ":", "@"}}

\* quote(s, safe=RFC3986_SUBDELIMS + '/~:@')
RECURSIVE Quote(_)
Quote(s) ==
    IF Len(s) = 0 THEN <<>>
    ELSE LET c == Head(s)
             b == Utf8(c)
             e == IF QuoteSafe(c) THEN <<c>>
                  ELSE IF Len(b) = 1 THEN PercentByte(b[1])
                  ELSE IF Len(b) = 2 THEN PercentByte(b[1]) \o PercentByte(b[2])
                  ELSE IF Len(b) = 3
                  THEN PercentByte(b[1]) \o PercentByte(b[2]) \o PercentByte(b[3])
                  ELSE PercentByte(b[1]) \o PercentByte(b[2])
                       \o PercentByte(b[3]) \o PercentByte(b[4])
         IN  e \o Quote(Tail(s))

NoReverseMatch == Text(<<"!">>)

\* django.urls.reverse(name, args=[arg]) for a pattern with one group: the
\* candidate must match the pattern, and the URL is the quoted candidate
reverse(name, arg) ==
    LET named == {i \in 1..Len(urlpatterns) :
                     urlpatterns[i].name = name /\ urlpatterns[i].pk}
    IN  IF named = {} THEN NoReverseMatch
        ELSE LET i == CHOOSE m \in named : TRUE
                 candidate == urlpatterns[i].lit \o arg
             IN  IF PatternMatches(urlpatterns[i], candidate)
                 THEN Quote(Text(<<"/">>) \o RootInclude \o candidate)
                 ELSE NoReverseMatch

\* variant: the view name copied from Book
AuthorGetAbsoluteUrlBook(id) == reverse("book-detail", Str(id))

\* Book.get_absolute_url
BookGetAbsoluteUrl(id) == reverse("book-detail", Str(id))

\* Author.get_absolute_url
AuthorGetAbsoluteUrl(id) == reverse("author-detail", Str(id))

Pks == 1..MaxPk

NoObj == [kind |-> "none", id |-> 0]
Unresolved == [view |-> "none", pk |-> <<>>]

\* paths a browser may ask for besides the canonical URLs; the last two end
\* in a newline and in the Arabic-Indic digit three
OtherPaths == {Text(<<"/">>),
               Text(<<"/">>) \o <<Newline>>,
               Text(<<"/", "b", "o", "o", "k", "s", "/">>),
               Text(<<"/", "a", "u", "t", "h", "o", "r", "/">>),
               Text(<<"/", "m", "y", "b", "o", "o", "k", "s", "/">>),
               Text(<<"/", "b", "o", "o", "k", "/", "x">>),
               Text(<<"/", "b", "o", "o", "k", "/">>),
               Text(<<"/", "b", "o", "o", "k", "/", "7">>) \o <<Newline>>,
               Text(<<"/", "a", "u", "t", "h", "o", "r", "/">>) \o <<1635>>}

\* a template asks a Book or an Author for its canonical URL
GetAbsoluteUrl(kind, id) ==
    /\ urlObj' = [kind |-> kind, id |-> id]
    /\ urlPath' = IF kind = "Book" THEN BookGetAbsoluteUrl(id)
                  ELSE AuthorGetAbsoluteUrl(id)
    /\ resolved' = Unresolved
    /\ UNCHANGED <<dbVars, imgVars, dueVars>>

\* a browser asks for some other path
Browse(path) ==
    /\ urlObj' = NoObj
    /\ urlPath' = path
    /\ resolved' = Unresolved
    /\ UNCHANGED <<dbVars, imgVars, dueVars>>

\* the request for urlPath is dispatched
Dispatch ==
    /\ resolved = Unresolved
    /\ resolved' = resolve(urlPath)
    /\ UNCHANGED <<urlObj, urlPath>>
    /\ UNCHANGED <<dbVars, imgVars, dueVars>>

\* --------------------------------------------------------- specifications

\* no request has validated a row
NoPending == [r \in Requests |-> NoRow]

\* no image is stored
NoImages == [e \in Entities |-> None]

\* no image has been saved
NoUpload == [path |-> "none", entity |-> "none", size |-> None,
             outcome |-> "none"]

\* authors alone
\* the empty store
InitAuthors ==
    /\ authors = {}
    /\ languages = {}
    /\ books = {}
    /\ instances = {}
    /\ nextAuthor = 1
    /\ nextLanguage = 1
    /\ nextBook = 1
    /\ pending = NoPending
    /\ result = Res("none", "ok")
    /\ images = NoImages
    /\ upload = NoUpload
    /\ today = 1
    /\ due_back = None
    /\ overdue = Unread
    /\ urlObj = NoObj
    /\ urlPath = Text(<<"/">>)
    /\ resolved = Unresolved

NextAuthors ==
    \/ \E f \in FirstNames, l \in LastNames, d \in Dobs : CreateAuthor(f, l, d)
    \/ \E id \in AuthorIds : DeleteAuthor(id)

SpecAuthors == InitAuthors /\ [][NextAuthors]_vars

\* the catalogue: books and the authors and languages they reference
\* the store once the authors and languages have been entered, which the
\* catalogue does before any Book is created
InitBooks ==
    /\ authors = {[id |-> i, first_name |-> "Frank", last_name |-> "Herbert",
                   date_of_birth |-> 1919 + i] : i \in AuthorIds}
    /\ languages = {[id |-> i] : i \in LanguageIds}
    /\ books = {}
    /\ instances = {}
    /\ nextAuthor = MaxAuthors + 1
    /\ nextLanguage = MaxLanguages + 1
    /\ nextBook = 1
    /\ pending = NoPending
    /\ result = Res("none", "ok")
    /\ images = NoImages
    /\ upload = NoUpload
    /\ today = 1
    /\ due_back = None
    /\ overdue = Unread
    /\ urlObj = NoObj
    /\ urlPath = Text(<<"/">>)
    /\ resolved = Unresolved

NextBooks ==
    \/ \E id \in AuthorIds : DeleteAuthor(id)
    \/ \E id \in LanguageIds : DeleteLanguage(id)
    \/ \E t \in Titles, a \in AuthorIds \cup {None}, i \in Isbns,
          l \in LanguageIds \cup {None} : CreateBook(t, a, i, l)
    \/ \E t \in Titles, a \in AuthorIds \cup {None}, i \in Isbns,
          l \in LanguageIds \cup {None} : SaveBook(t, a, i, l)
    \/ \E id \in BookIds, t \in Titles, a \in AuthorIds \cup {None},
          i \in Isbns, l \in LanguageIds \cup {None} :
            UpdateBook(id, t, a, i, l)
    \/ \E id \in BookIds : DeleteBook(id)

SpecBooks == InitBooks /\ [][NextBooks]_vars

\* concurrent validated writes of the Book table, all of books by the author
\* and in the language entered last
\* the store once the authors and languages have been entered, which the
\* catalogue does before any Book is created
InitRace ==
    /\ authors = {[id |-> i, first_name |-> "Frank", last_name |-> "Herbert",
                   date_of_birth |-> 1919 + i] : i \in AuthorIds}
    /\ languages = {[id |-> i] : i \in LanguageIds}
    /\ books = {}
    /\ instances = {}
    /\ nextAuthor = MaxAuthors + 1
    /\ nextLanguage = MaxLanguages + 1
    /\ nextBook = 1
    /\ pending = NoPending
    /\ result = Res("none", "ok")
    /\ images = NoImages
    /\ upload = NoUpload
    /\ today = 1
    /\ due_back = None
    /\ overdue = Unread
    /\ urlObj = NoObj
    /\ urlPath = Text(<<"/">>)
    /\ resolved = Unresolved

NextRace ==
    \/ \E r \in Requests, t \in Titles, i \in Isbns :
            BeginCreateBook(r, t, MaxAuthors, i, MaxLanguages)
    \/ \E r \in Requests : CommitCreateBook(r)
    \/ \E r \in Requests, id \in BookIds, t \in Titles, i \in Isbns :
            BeginUpdateBook(r, id, t, MaxAuthors, i, MaxLanguages)
    \/ \E r \in Requests : CommitUpdateBook(r)
    \/ \E id \in BookIds : DeleteBook(id)

SpecRace == InitRace /\ [][NextRace]_vars

\* the loan desk: copies of books by the author and in the language entered
\* last
\* the store once the authors and languages have been entered, which the
\* catalogue does before any Book is created
InitLoan ==
    /\ authors = {[id |-> i, first_name |-> "Frank", last_name |-> "Herbert",
                   date_of_birth |-> 1919 + i] : i \in AuthorIds}
    /\ languages = {[id |-> i] : i \in LanguageIds}
    /\ books = {}
    /\ instances = {}
    /\ nextAuthor = MaxAuthors + 1
    /\ nextLanguage = MaxLanguages + 1
    /\ nextBook = 1
    /\ pending = NoPending
    /\ result = Res("none", "ok")
    /\ images = NoImages
    /\ upload = NoUpload
    /\ today = 1
    /\ due_back = None
    /\ overdue = Unread
    /\ urlObj = NoObj
    /\ urlPath = Text(<<"/">>)
    /\ resolved = Unresolved

NextLoan ==
    \/ \E t \in Titles, i \in Isbns :
            CreateBook(t, MaxAuthors, i, MaxLanguages)
    \/ \E id \in BookIds : DeleteBook(id)
    \/ \E id \in Uuids, b \in BookIds \cup {None} : CreateInstance(id, b, Unset)
    \/ \E id \in Uuids, b \in BookIds \cup {None} : SaveInstance(id, b, Unset)
    \/ \E id \in Uuids : DeleteInstance(id)

SpecLoan == InitLoan /\ [][NextLoan]_vars

\* the status of the copies of a book
\* the store once the authors, the languages and a first Book have been
\* entered
InitStatus ==
    /\ authors = {[id |-> i, first_name |-> "Frank", last_name |-> "Herbert",
                   date_of_birth |-> 1919 + i] : i \in AuthorIds}
    /\ languages = {[id |-> i] : i \in LanguageIds}
    /\ books = {[id |-> 1, title |-> "Dune", author |-> MaxAuthors,
                 isbn |-> "9780441013593", language |-> MaxLanguages]}
    /\ instances = {}
    /\ nextAuthor = MaxAuthors + 1
    /\ nextLanguage = MaxLanguages + 1
    /\ nextBook = 2
    /\ pending = NoPending
    /\ result = Res("none", "ok")
    /\ images = NoImages
    /\ upload = NoUpload
    /\ today = 1
    /\ due_back = None
    /\ overdue = Unread
    /\ urlObj = NoObj
    /\ urlPath = Text(<<"/">>)
    /\ resolved = Unresolved

NextStatus ==
    \/ \E id \in Uuids, b \in BookIds, s \in StatusInputs :
            CreateInstance(id, b, s)
    \/ \E id \in Uuids, s \in StatusInputs : SaveInstance(id, None, s)
    \/ \E id \in Uuids : DeleteInstance(id)

SpecStatus == InitStatus /\ [][NextStatus]_vars

\* image uploads
\* the empty store, no image saved yet
InitImages ==
    /\ authors = {}
    /\ languages = {}
    /\ books = {}
    /\ instances = {}
    /\ nextAuthor = 1
    /\ nextLanguage = 1
    /\ nextBook = 1
    /\ pending = NoPending
    /\ result = Res("none", "ok")
    /\ images = NoImages
    /\ upload = NoUpload
    /\ today = 1
    /\ due_back = None
    /\ overdue = Unread
    /\ urlObj = NoObj
    /\ urlPath = Text(<<"/">>)
    /\ resolved = Unresolved

NextImages ==
    \/ \E e \in Entities, size \in Sizes : CleanAndSaveImage(e, size)
    \/ \E e \in Entities, size \in Sizes : SaveImage(e, size)

SpecImages == InitImages /\ [][NextImages]_vars

\* the due date of a copy as the days pass
\* one BookInstance, with any due date or none, on any day
InitDue ==
    /\ authors = {}
    /\ languages = {}
    /\ books = {}
    /\ instances = {}
    /\ nextAuthor = 1
    /\ nextLanguage = 1
    /\ nextBook = 1
    /\ pending = NoPending
    /\ result = Res("none", "ok")
    /\ images = NoImages
    /\ upload = NoUpload
    /\ today \in Dates
    /\ due_back \in Dates \cup {None}
    /\ overdue = Unread
    /\ urlObj = NoObj
    /\ urlPath = Text(<<"/">>)
    /\ resolved = Unresolved

NextDue ==
    \/ ReadIsOverdue
    \/ Tick

SpecDue == InitDue /\ [][NextDue]_vars

\* canonical URLs and their dispatch
\* the site root, not yet dispatched
InitUrl ==
    /\ authors = {}
    /\ languages = {}
    /\ books = {}
    /\ instances = {}
    /\ nextAuthor = 1
    /\ nextLanguage = 1
    /\ nextBook = 1
    /\ pending = NoPending
    /\ result = Res("none", "ok")
    /\ images = NoImages
    /\ upload = NoUpload
    /\ today = 1
    /\ due_back = None
    /\ overdue = Unread
    /\ urlObj = NoObj
    /\ urlPath = Text(<<"/">>)
    /\ resolved = Unresolved

NextUrl ==
    \/ \E id \in Pks : GetAbsoluteUrl("Book", id)
    \/ \E id \in Pks : GetAbsoluteUrl("Author", id)
    \/ \E p \in OtherPaths : Browse(p)
    \/ Dispatch

SpecUrl == InitUrl /\ [][NextUrl]_vars

\* ------------------------------------------------------------ properties

\* C1 as stated: whatever the path, the save of an image larger than
\* 2*1024*1024 bytes ends in the validation error and the save of an image
\* of at most that size succeeds.
C1_Original ==
    upload.outcome # "none" =>
        /\ (upload.size > TwoMB => upload.outcome = "ValidationError")
        /\ (upload.size <= TwoMB =>
                upload.outcome = "ok" /\ images[upload.entity] = upload.size)

\* C1: for each of the three image-bearing entities and every size, a save
\* that full_clean() precedes ends in the validation error when the image is
\* larger than 2*1024*1024 bytes and stores the image when it is of at most
\* that size, the limit itself included; save() alone stores the image
\* whatever its size.
C1_SizeLimit ==
    /\ upload.path = "full_clean" =>
          /\ upload.entity \in Entities
          /\ (upload.size > TwoMB => upload.outcome = "ValidationError")
          /\ (upload.size <= TwoMB =>
                 upload.outcome = "ok" /\ images[upload.entity] = upload.size)
    /\ upload.path = "save" =>
          upload.outcome = "ok" /\ images[upload.entity] = upload.size

\* a validated BookInstance photo of exactly 2MB has been saved
C1_Witness ==
    /\ upload = [path |-> "full_clean", entity |-> "BookInstance",
                 size |-> TwoMB, outcome |-> "ok"]
    /\ images["BookInstance"] = TwoMB

\* C2: a Book that a BookInstance references survives every step unchanged,
\* a refused delete changes neither table, and the delete of a Book that no
\* BookInstance references removes it.
C2_DeleteRestricted ==
    [][ /\ \A b \in books : Referencing(b.id) # {} => b \in books'
        /\ result'.outcome = "RestrictedError" =>
               books' = books /\ instances' = instances
        /\ \A id \in BookIds :
               DeleteBook(id) =>
                   IF Referencing(id) # {}
                   THEN result'.outcome = "RestrictedError"
                   ELSE \A b \in books' : b.id # id ]_vars

\* the delete of a referenced Book has just been refused
C2_Witness ==
    /\ result = Res("DeleteBook", "RestrictedError")
    /\ \E b \in books : Referencing(b.id) # {}

\* the Book row with primary key id after a step, as the row b before it with
\* the given author and language
SameBut(b, author, language) ==
    [b EXCEPT !.author = author, !.language = language]

\* C3: a step that removes an Author (a Language) keeps exactly the same
\* Books; those that referenced it lose that reference and nothing else, and
\* the others are unchanged.
C3_SetNull ==
    [][ /\ \A a \in authors : a \notin authors' =>
              books' = {SameBut(b, IF b.author = a.id THEN None ELSE b.author,
                                b.language) : b \in books}
        /\ \A l \in languages : l \notin languages' =>
              books' = {SameBut(b, b.author,
                                IF b.language = l.id THEN None ELSE b.language)
                        : b \in books}
        /\ (authors' # authors \/ languages' # languages) =>
              {b.id : b \in books'} = {b.id : b \in books} ]_vars

\* an Author has been deleted and a Book that lost its author stands next to
\* a Book that kept its own
C3_Witness ==
    /\ result = Res("DeleteAuthor", "ok")
    /\ \E b, c \in books :
          /\ b.author = None
          /\ c.author # None
          /\ \A a \in authors : a.id <= c.author

\* C4 as stated: no two distinct Books have the same (title, author) pair,
\* an absent author included.
C4_Original ==
    \A b, c \in books :
        b.id # c.id => ~(b.title = c.title /\ b.author = c.author)

\* C4: no two distinct Books whose author reference is present have the same
\* (title, author) pair.
C4_UniquePresent ==
    \A b, c \in books :
        (b.id # c.id /\ b.author # None) =>
            ~(b.title = c.title /\ b.author = c.author)

\* two Books by different authors share a title, and giving one the author
\* of the other has been refused
C4_Witness ==
    /\ result = Res("UpdateBook", "ValidationError")
    /\ \E b, c \in books :
          /\ b.id # c.id
          /\ b.title = c.title
          /\ b.author # None
          /\ c.author # None

\* C5: in every step, also of interleaved requests, at most one Book holds
\* each isbn afterwards; a write whose isbn another Book holds does not pass
\* validation, and one that passed it before the isbn was taken fails at
\* the INSERT or UPDATE and leaves the Books as they were.
C5_IsbnUnique ==
    [][ /\ \A b, c \in books' : b.id # c.id => b.isbn # c.isbn
        /\ \A r \in Requests :
              (pending[r] = NoRow /\ pending'[r] # NoRow)
                  => \A b \in books :
                        b.id # pending'[r].id => b.isbn # pending'[r].isbn
        /\ \A r \in Requests :
              (pending[r] # NoRow /\ pending'[r] = NoRow
               /\ \E b \in books :
                     b.id # pending[r].id /\ b.isbn = pending[r].isbn)
                  => books' = books /\ result'.outcome = "IntegrityError" ]_vars

\* a create that passed validation is still waiting for its INSERT, and
\* another request has meanwhile stored a Book with its isbn
C5_Witness ==
    /\ result = Res("CreateBook", "ok")
    /\ \E r \in Requests :
          /\ pending[r] # NoRow
          /\ pending[r].id = None
          /\ \E b \in books : b.isbn = pending[r].isbn

\* C6 as stated: no two distinct Authors have the same (first_name, last_name,
\* date_of_birth) triple, an absent date_of_birth included.
C6_Original ==
    \A a, b \in authors :
        a.id # b.id =>
            ~(/\ a.first_name = b.first_name
              /\ a.last_name = b.last_name
              /\ a.date_of_birth = b.date_of_birth)

\* C6: no two distinct Authors whose date_of_birth is present have the same
\* (first_name, last_name, date_of_birth) triple.
C6_UniquePresent ==
    \A a, b \in authors :
        (a.id # b.id /\ a.date_of_birth # None) =>
            ~(/\ a.first_name = b.first_name
              /\ a.last_name = b.last_name
              /\ a.date_of_birth = b.date_of_birth)

\* an Author with the triple of an existing Author has been refused
C6_Witness ==
    /\ result = Res("CreateAuthor", "ValidationError")
    /\ \E a \in authors : a.date_of_birth # None

\* C7: the value read from is_overdue is true exactly when due_back is set
\* and strictly before the current date, and the read leaves due_back and the
\* date as they were.
C7_Overdue ==
    [][ overdue'.read =>
            /\ overdue'.value <=> (due_back # None /\ due_back < today)
            /\ due_back' = due_back
            /\ today' = today ]_vars

\* is_overdue has been read on the very day the copy is due
C7_Witness ==
    /\ overdue = [read |-> TRUE, value |-> FALSE]
    /\ due_back = today

\* C8 as stated: every BookInstance stored after it passed validation has one
\* of the four statuses, and one created without a status has status 'd'.
C8_Original ==
    [][ /\ (result'.op = "CreateInstance" /\ result'.outcome = "ok") =>
              \A i \in instances' \ instances :
                  i.status \in {"d", "o", "a", "r"}
        /\ \A id \in Uuids, b \in BookIds \cup {None} :
              ((CreateInstance(id, b, Unset) \/ SaveInstance(id, b, Unset))
               /\ result'.outcome = "ok") =>
                  \E i \in instances' : i.id = id /\ i.status = "d" ]_vars

\* C8: every BookInstance stored after it passed validation has one of the
\* four statuses or the empty status, and one created without a status has
\* status 'd'.
C8_StatusOrBlank ==
    [][ /\ (result'.op = "CreateInstance" /\ result'.outcome = "ok") =>
              \A i \in instances' \ instances :
                  i.status \in {"d", "o", "a", "r", ""}
        /\ \A id \in Uuids, b \in BookIds \cup {None} :
              ((CreateInstance(id, b, Unset) \/ SaveInstance(id, b, Unset))
               /\ result'.outcome = "ok") =>
                  \E i \in instances' : i.id = id /\ i.status = "d" ]_vars

\* a validated copy with the empty status is stored next to a validated copy
\* with the default one
C8_Witness ==
    \E i, j \in instances :
        /\ i.book # None /\ i.status = ""
        /\ j.book # None /\ j.status = "d"

\* C9: the book of every BookInstance that has one is a Book that exists.
C9_NoDangling ==
    \A i \in instances :
        i.book # None => \E b \in books : b.id = i.book

\* the store has refused a copy of a Book that does not exist while another
\* copy references its Book
C9_Witness ==
    /\ result = Res("SaveInstance", "IntegrityError")
    /\ \E i \in instances : i.book # None

\* c is one of the ten digits 0 to 9
IsDecimal(c) == Ord("0") <= c /\ c <= Ord("9")

\* the integer a string of the digits 0 to 9 denotes
RECURSIVE ParseInt(_)
ParseInt(s) ==
    IF Len(s) = 0 THEN 0
    ELSE 10 * ParseInt(SubSeq(s, 1, Len(s) - 1)) + (s[Len(s)] - Ord("0"))

\* path is prefix followed by the decimal numeral of n
IsNumbered(path, prefix, n) ==
    LET num == SubSeq(path, Len(prefix) + 1, Len(path)) IN
    /\ Len(path) > Len(prefix)
    /\ SubSeq(path, 1, Len(prefix)) = prefix
    /\ \A k \in 1..Len(num) : IsDecimal(num[k])
    /\ num[1] # Ord("0") \/ Len(num) = 1
    /\ ParseInt(num) = n

\* C10: the canonical URL of the Book n is /book/n and that of the Author n
\* is /author/n; dispatched, it matches the detail pattern of its entity and
\* no other, and the handler receives the pk n.
C10_CanonicalUrl ==
    urlObj # NoObj =>
        LET prefix == IF urlObj.kind = "Book"
                      THEN Text(<<"/", "b", "o", "o", "k", "/">>)
                      ELSE Text(<<"/", "a", "u", "t", "h", "o", "r", "/">>)
            view   == IF urlObj.kind = "Book" THEN "BookDetailView"
                      ELSE "AuthorDetailView"
        IN  /\ IsNumbered(urlPath, prefix, urlObj.id)
            /\ resolved # Unresolved =>
                  /\ resolved.view = view
                  /\ \A k \in 1..Len(resolved.pk) : IsDecimal(resolved.pk[k])
                  /\ ParseInt(resolved.pk) = urlObj.id
                  /\ \A i \in Matching(urlPath) : urlpatterns[i].view = view
                  /\ Cardinality(Matching(urlPath)) = 1

\* the canonical URL of an Author with a two-digit key has been dispatched
C10_Witness ==
    /\ urlObj.kind = "Author"
    /\ urlObj.id >= 10
    /\ resolved.view = "AuthorDetailView"

====
